---- MODULE Spec2Model ----
(***************************************************************************)
(* Model of etl_connector.py: the AlienVault OTX -> MongoDB connector.     *)
(*                                                                         *)
(* JSON values are tagged tuples:                                          *)
(*   <<"null">>            Python None / JSON null                         *)
(*   <<"int", n>>          a number                                        *)
(*   <<"str", chars>>      a string, chars a sequence of one-char strings  *)
(*   <<"list", elems>>     a list                                          *)
(*   <<"dict", items>>     a dict, items the sequence of <<key, value>>    *)
(*                         pairs in insertion order, keys char sequences   *)
(***************************************************************************)
EXTENDS Integers, Sequences, FiniteSets, TLC

\* ------------------------------------------------------------------ bounds

\* Longest mapping key drawn for the key-rewriting transform.
MaxKeyLen == 2
\* Pages of the feed's chain, and records on one page.
MaxPages == 2
MaxPageLen == 2
\* Process invocations in one behaviour.
MaxRuns == 2
\* Records of the whole feed.
MaxRecords == 3

\* --------------------------------------------------------------- JSON values

Null == <<"null">>
Str(chars) == <<"str", chars>>
Num(n) == <<"int", n>>
List(elems) == <<"list", elems>>
Dict(items) == <<"dict", items>>

IsDict(v) == v[1] = "dict"
IsList(v) == v[1] = "list"
IsStr(v) == v[1] = "str"

\* Python truthiness of a value: None, "", 0, [] and {} are falsy.
Truthy(v) ==
    CASE v[1] = "null" -> FALSE
      [] v[1] = "int" -> v[2] # 0
      [] OTHER -> v[2] # <<>>

\* a or b
PyOr(a, b) == IF Truthy(a) THEN a ELSE b

DictKeys(d) == {d[2][i][1] : i \in 1..Len(d[2])}

\* d.get(k): the value under k, None when k is no key of d.
DictGet(d, k) ==
    IF k \in DictKeys(d)
    THEN LET i == CHOOSE j \in 1..Len(d[2]) : d[2][j][1] = k IN d[2][i][2]
    ELSE Null

\* d[k] = v: an existing key keeps its position, a new key is appended.
DictSet(d, k, v) ==
    IF k \in DictKeys(d)
    THEN Dict([i \in 1..Len(d[2]) |-> IF d[2][i][1] = k THEN <<k, v>> ELSE d[2][i]])
    ELSE Dict(Append(d[2], <<k, v>>))

\* a == b in Python: dicts compare by key and value whatever the insertion order.
RECURSIVE PyEq(_, _)
PyEq(a, b) ==
    IF IsDict(a) /\ IsDict(b)
    THEN /\ DictKeys(a) = DictKeys(b)
         /\ Len(a[2]) = Len(b[2])
         /\ \A k \in DictKeys(a) : PyEq(DictGet(a, k), DictGet(b, k))
    ELSE IF IsList(a) /\ IsList(b)
    THEN /\ Len(a[2]) = Len(b[2])
         /\ \A i \in 1..Len(a[2]) : PyEq(a[2][i], b[2][i])
    ELSE a = b

\* ------------------------------------------------------- key rewriting

\* str.replace('.', '_')
RECURSIVE ReplaceDots(_)
ReplaceDots(key) ==
    IF key = <<>> THEN <<>>
    ELSE <<IF Head(key) = "." THEN "_" ELSE Head(key)>> \o ReplaceDots(Tail(key))

\* str.lstrip('$')
RECURSIVE LStripDollar(_)
LStripDollar(key) ==
    IF key # <<>> /\ Head(key) = "$" THEN LStripDollar(Tail(key)) ELSE key

\* A slip: removeprefix('$') in place of lstrip('$').
safe_key_one_dollar(key) ==
    LET r == ReplaceDots(key) IN IF r # <<>> /\ Head(r) = "$" THEN Tail(r) ELSE r

safe_key(key) == LStripDollar(ReplaceDots(key))

RECURSIVE make_mongo_safe(_)
\* {safe_key(k): make_mongo_safe(v) for k, v in obj.items()}: the items are
\* taken in order, so of two keys rewritten to the same key the first fixes
\* the position and the last fixes the value.
RECURSIVE SafeItems(_, _)
SafeItems(items, acc) ==
    IF items = <<>> THEN acc
    ELSE SafeItems(Tail(items),
                   DictSet(acc, safe_key(Head(items)[1]), make_mongo_safe(Head(items)[2])))

\* A slip: the list branch is missing, a list is returned as it is.
make_mongo_safe_no_lists(obj) ==
    IF IsDict(obj) THEN SafeItems(obj[2], Dict(<<>>)) ELSE obj

make_mongo_safe(obj) ==
    IF IsDict(obj) THEN SafeItems(obj[2], Dict(<<>>))
    ELSE IF IsList(obj)
    THEN List([i \in 1..Len(obj[2]) |-> make_mongo_safe(obj[2][i])])
    ELSE obj

\* ------------------------------------------- inputs of the transform

Chars == {".", "$", "_"}

RECURSIVE SeqsUpTo(_, _)
SeqsUpTo(S, n) ==
    IF n = 0 THEN {<<>>}
    ELSE LET shorter == SeqsUpTo(S, n - 1)
         IN  shorter \cup {Append(s, c) : s \in shorter, c \in S}

KeyPool == SeqsUpTo(Chars, MaxKeyLen) \ {<<>>}

Scalars == {Num(1), Str(<<"$", ".">>)}

\* Mappings of one or two distinct keys, sequences of one or two elements.
Mappings(V) ==
    {Dict(<<>>)}
    \cup {Dict(<<<<k, v>>>>) : k \in KeyPool, v \in V}
    \cup {Dict(<<<<k1, v1>>, <<k2, v2>>>>) :
             <<k1, k2>> \in {p \in KeyPool \X KeyPool : p[1] # p[2]},
             <<v1, v2>> \in V \X V}

Lists(V) ==
    {List(<<>>)} \cup {List(<<v>>) : v \in V} \cup {List(<<v1, v2>>) : v1 \in V, v2 \in V}

\* One value wrapped in a mapping or a sequence.
Wrap(V) == {Dict(<<<<k, v>>>>) : k \in KeyPool, v \in V} \cup {List(<<v>>) : v \in V}

Objects ==
    Scalars \cup Mappings(Scalars) \cup Lists(Scalars)
    \cup Wrap(Wrap(Scalars))
    \cup {Dict(<<<<k, List(<<Num(1), Dict(<<<<k, Num(1)>>>>)>>)>>>>) : k \in KeyPool}


\* ------------------------------------------------------------ timestamps

\* A timestamp text is local time followed by the UTC offset, as in ISO-8601
\* ("2025-01-01T01:00:00+00:00"); here one digit of hours, the sign, one
\* digit of offset hours: "1+0".
Code(c) ==
    CASE c = "+" -> 43 [] c = "-" -> 45
      [] c = "0" -> 48 [] c = "1" -> 49 [] c = "2" -> 50 [] c = "3" -> 51

\* s < t on Python strings: by code point, a proper prefix is smaller.
RECURSIVE StrLess(_, _)
StrLess(s, t) ==
    IF t = <<>> THEN FALSE
    ELSE IF s = <<>> THEN TRUE
    ELSE IF Head(s) # Head(t) THEN Code(Head(s)) < Code(Head(t))
    ELSE StrLess(Tail(s), Tail(t))

TA == Str(<<"1", "+", "0">>)
TB == Str(<<"0", "-", "2">>)
TC == Str(<<"2", "+", "0">>)

\* ------------------------------------------------------- the remote feed

K_id == <<"i", "d">>
K_revision == <<"r", "e", "v", "i", "s", "i", "o", "n">>
K_modified == <<"m", "o", "d", "i", "f", "i", "e", "d">>
K_created == <<"c", "r", "e", "a", "t", "e", "d">>
K_results == <<"r", "e", "s", "u", "l", "t", "s">>
K_next == <<"n", "e", "x", "t">>
K_source == <<"_", "s", "o", "u", "r", "c", "e">>
K_ingested_at == <<"i", "n", "g", "e", "s", "t", "e", "d", "_", "a", "t">>
K_run_id == <<"r", "u", "n", "_", "i", "d">>
K_page_no == <<"p", "a", "g", "e", "_", "n", "o">>
K_hash == <<"_", "h", "a", "s", "h">>
K_limit == <<"l", "i", "m", "i", "t">>
K_modified_since == <<"m", "o", "d", "i", "f", "i", "e", "d", "_", "s", "i", "n", "c", "e">>

\* Raw pulse records: with or without an identifier (an identified pulse
\* carries its revision), with or without "modified", with or without
\* "created".
Opt(k, v) == {<<>>, <<<<k, v>>>>}

RawRecords ==
    {Dict(i \o m \o c) :
        i \in {<<>>, <<<<K_id, Str(<<"p", "1">>)>>, <<K_revision, Num(1)>>>>},
        m \in Opt(K_modified, TB),
        c \in Opt(K_created, TC)}

\* The records of one invocation: the identified ones.
IdentifiedRecords == {r \in RawRecords : DictGet(r, K_id) # Null}

\* The records of the repeated invocations: those without "created".
RerunRecords == {r \in RawRecords : DictGet(r, K_created) = Null}

RECURSIVE SumLen(_)
SumLen(pages) == IF pages = <<>> THEN 0 ELSE Len(Head(pages)) + SumLen(Tail(pages))

RECURSIVE SeqsOfLen(_, _)
SeqsOfLen(S, n) ==
    IF n = 0 THEN {<<>>} ELSE {Append(s, x) : s \in SeqsOfLen(S, n - 1), x \in S}

\* The chains of n pages of at most MaxPageLen records each, budget records
\* in all.
RECURSIVE Chains(_, _, _)
Chains(R, n, budget) ==
    IF n = 0 THEN {<<>>}
    ELSE LET longest == IF budget < MaxPageLen THEN budget ELSE MaxPageLen
             Pages == UNION {SeqsOfLen(R, m) : m \in 0..longest}
         IN  UNION {{<<pg>> \o rest : rest \in Chains(R, n - 1, budget - Len(pg))} :
                       pg \in Pages}

\* A feed is the chain of its pages, each the list of its records.
Feeds(R) == UNION {Chains(R, n, MaxRecords) : n \in 1..MaxPages}

OTX_PAGE_LIMIT == 50

Digit == <<"1", "2", "3", "4", "5">>
OTX_PULSES_SUBSCRIBED == Str(<<"/">>)
\* The continuation URL of page k (k > 1); it carries its own query.
PageUrl(k) == Str(<<"/", "?", Digit[k]>>)
PageOfUrl(u) == IF u = OTX_PULSES_SUBSCRIBED THEN 1 ELSE CHOOSE k \in 2..5 : PageUrl(k) = u

\* The JSON body the listing endpoint returns for page k of feed f.
ServerPage(f, k) ==
    Dict(<<<<K_results, List(f[k])>>>>
         \o (IF k < Len(f) THEN <<<<K_next, PageUrl(k + 1)>>>> ELSE <<>>))

\* ------------------------------------------------------- the collection

\* json.dumps(doc, sort_keys=True): the insertion order of keys is lost.
RECURSIVE Canon(_)
Canon(v) ==
    IF IsDict(v) THEN <<"dict", [k \in DictKeys(v) |-> Canon(DictGet(v, k))]>>
    ELSE IF IsList(v) THEN List([i \in 1..Len(v[2]) |-> Canon(v[2][i])])
    ELSE v

\* hash(text): a value that stands for the hash, equal only for equal text.
PyHash(text) == <<"hash", text>>

\* A filter of equalities matches a document field by field; None matches a
\* null or missing field.
Matches(d, key) == \A i \in 1..Len(key[2]) : DictGet(d, key[2][i][1]) = key[2][i][2]

RECURSIVE SetAll(_, _)
SetAll(d, items) ==
    IF items = <<>> THEN d
    ELSE SetAll(DictSet(d, Head(items)[1], Head(items)[2]), Tail(items))

\* collection.update_one(key, {"$set": doc}, upsert=True): the first
\* document matching key gets the fields of doc set (its other fields stay);
\* when none matches, a document of key's fields and doc's fields is
\* inserted.  The store's own _id is left out.
UpdateOneSetUpsert(coll, key, doc) ==
    LET hits == {i \in 1..Len(coll) : Matches(coll[i], key)}
    IN  IF hits # {}
        THEN LET i == CHOOSE j \in hits : \A h \in hits : j <= h
             IN  [coll EXCEPT ![i] = SetAll(coll[i], doc[2])]
        ELSE Append(coll, SetAll(key, doc[2]))

NaturalKey(doc) ==
    IF DictGet(doc, K_id) = Null
    THEN Dict(<<<<K_hash, PyHash(Canon(doc))>>>>)
    ELSE Dict(<<<<K_id, DictGet(doc, K_id)>>, <<K_revision, DictGet(doc, K_revision)>>>>)

upsert_pulse(coll, doc) == UpdateOneSetUpsert(coll, NaturalKey(doc), doc)

\* ------------------------------------------------------------- run state

VARIABLES
    obj, once, twice, stage,        \* the transform's input and results
    feed,                           \* the server's chain of pages
    runsLeft,                       \* invocations still to come
    wmFile,                         \* "modified_since" of the watermark file
    collection,                     \* the documents of the Mongo collection
    clock,                          \* readings of the wall clock so far
    runs,                           \* invocations so far
    pc,                             \* where the invocation is
    dry_run, modified_since, run_id, mongo_open,
    latest_modified_seen, page_no, docs_ingested,
    url, page, idx,                 \* the generator's url, the page yielded, the record next
    exit_status, diag, reported,    \* exit code, [fatal] line, final count printed
    requests,                       \* listing requests of this invocation
    normalized,                     \* documents normalized by this invocation
    yielded,                        \* pages fetch_pulses yielded in this invocation
    auth_status,                    \* status of the identity check, -1 before it
    wm_saves,                       \* save_watermark calls of this invocation
    wmAtStart, collAtStart,         \* wmFile and collection when this invocation started
    prev                            \* how the previous invocation ended

safeVars == <<obj, once, twice, stage>>
envVars == <<feed, runsLeft>>
diskVars == <<wmFile, collection>>
localVars == <<dry_run, modified_since, run_id, mongo_open, latest_modified_seen,
               page_no, docs_ingested, url, page, idx>>
outVars == <<exit_status, diag, reported>>
histVars == <<requests, normalized, yielded, auth_status, wm_saves, wmAtStart, collAtStart, prev>>
etlVars == <<envVars, diskVars, clock, runs, pc, localVars, outVars, histVars>>
vars == <<safeVars, etlVars>>

\* ---------------------------------------------------------------- actions

\* sys.exit(code), after the "[fatal] ..." line when code is 1.
Exit(code, line) ==
    /\ pc' = "exited"
    /\ exit_status' = code
    /\ diag' = line

\* modified_since = since_cli or since_file or since_env
ResumePoint(since_cli, since_file, since_env) ==
    PyOr(PyOr(since_cli, since_file), since_env)

\* run() up to the identity check: the environment and the command line are
\* read, the watermark file is loaded, the resume point is resolved.
Start(since_cli, no_watermark, dry, default_since) ==
    /\ pc \in {"idle", "exited"}
    /\ runsLeft > 0
    /\ runsLeft' = runsLeft - 1
    /\ runs' = runs + 1
    /\ prev' = [exit |-> exit_status, dry |-> dry_run, since |-> modified_since,
                 docs |-> Len(collection)]
    /\ dry_run' = dry
    /\ modified_since' =
          ResumePoint(since_cli,
                      IF no_watermark THEN Null ELSE wmFile,
                      PyOr(default_since, Null))
    /\ pc' = "auth"
    /\ run_id' = Null
    /\ mongo_open' = FALSE
    /\ latest_modified_seen' = Null
    /\ page_no' = 0
    /\ docs_ingested' = 0
    /\ url' = Null
    /\ page' = Null
    /\ idx' = 0
    /\ exit_status' = -1
    /\ diag' = Null
    /\ reported' = -1
    /\ requests' = <<>>
    /\ normalized' = <<>>
    /\ yielded' = <<>>
    /\ auth_status' = -1
    /\ wm_saves' = 0
    /\ wmAtStart' = wmFile
    /\ collAtStart' = collection
    /\ UNCHANGED <<safeVars, feed, diskVars, clock>>

\* OTX_API_KEY is not set: raise SystemExit(message), exit status 1.
StartMissingKey ==
    /\ pc = "idle"
    /\ runsLeft > 0
    /\ runsLeft' = runsLeft - 1
    /\ runs' = runs + 1
    /\ Exit(1, <<"Missing OTX_API_KEY", 0>>)
    /\ UNCHANGED <<safeVars, feed, diskVars, clock, localVars, reported, histVars>>

\* A slip: only a server error counts as a failed response.
BadStatus_server_only(status) == status >= 500

\* r.status_code != 200
BadStatus(status) == status # 200

\* validate_api_key, then the set-up of lines 180-185.
Authenticate(status) ==
    /\ pc = "auth"
    /\ auth_status' = status
    /\ IF BadStatus(status)
       THEN /\ Exit(1, <<"OTX API key validation failed", status>>)
            /\ UNCHANGED <<run_id, mongo_open, latest_modified_seen, url>>
       ELSE /\ run_id' = Num(runs)
            /\ mongo_open' = ~dry_run
            /\ latest_modified_seen' = modified_since
            /\ url' = OTX_PULSES_SUBSCRIBED
            /\ pc' = "fetch"
            /\ UNCHANGED <<exit_status, diag>>
    /\ UNCHANGED <<safeVars, envVars, diskVars, clock, runs, dry_run, modified_since,
                   page_no, docs_ingested, page, idx, reported, requests, normalized,
                   yielded, wm_saves, wmAtStart, collAtStart, prev>>

HasQuery(u) == \E i \in 1..Len(u[2]) : u[2][i] = "?"

\* params of the first request: limit, and modified_since when there is one.
FirstParams ==
    Dict(<<<<K_limit, Num(OTX_PAGE_LIMIT)>>>>
         \o (IF Truthy(modified_since) THEN <<<<K_modified_since, modified_since>>>> ELSE <<>>))

\* A slip: the generator follows no "next" link.
NextUrl_none(data) == Null

\* url = data.get("next")
NextUrl(data) == DictGet(data, K_next)

\* A slip: the loop over the pages is left after any page.
Exhausted_early == TRUE

\* while url: is over
Exhausted == ~Truthy(url)

\* fetch_pulses resumed with a url left: one listing request; on 200 the
\* page is yielded and run's loop body starts (page_no += 1).  (A chain of
\* at most MaxPages pages never takes more than MaxPages requests; the cap
\* on requests only stops a generator that would not.)
FetchPage(status) ==
    /\ pc = "fetch"
    /\ Truthy(url)
    /\ Len(requests) <= MaxPages
    /\ requests' = Append(requests,
                          <<url, IF HasQuery(url) \/ Len(requests) > 0 THEN Null
                                 ELSE FirstParams>>)
    /\ IF BadStatus(status)
       THEN /\ Exit(1, <<"Fetch error", status>>)
            /\ UNCHANGED <<page, url, page_no, idx, yielded>>
       ELSE LET data == ServerPage(feed, PageOfUrl(url))
            IN  /\ page' = data
                /\ yielded' = Append(yielded, data)
                /\ url' = NextUrl(data)
                /\ page_no' = page_no + 1
                /\ idx' = 1
                /\ pc' = IF DictGet(data, K_results)[2] = <<>> THEN "fetch" ELSE "records"
                /\ UNCHANGED <<exit_status, diag>>
    /\ UNCHANGED <<safeVars, envVars, diskVars, clock, runs, dry_run, modified_since,
                   run_id, mongo_open, latest_modified_seen, docs_ingested, reported,
                   normalized, auth_status, wm_saves, wmAtStart, collAtStart, prev>>

\* A slip: page_no is never advanced past the first page.
Normalize_first_page(p, now) ==
    SetAll(make_mongo_safe(p),
           <<<<K_source, Str(<<"o", "t", "x">>)>>, <<K_ingested_at, Num(now)>>,
             <<K_run_id, run_id>>, <<K_page_no, Num(1)>>>>)

\* Lines 192-196: the record made storage-safe, with its envelope.
Normalize(p, now) ==
    SetAll(make_mongo_safe(p),
           <<<<K_source, Str(<<"o", "t", "x">>)>>, <<K_ingested_at, Num(now)>>,
             <<K_run_id, run_id>>, <<K_page_no, Num(page_no)>>>>)

\* Lines 199-205: the running maximum.  mod > latest_modified_seen is a
\* comparison of strings; between a string and another type it raises
\* TypeError, which the except clause swallows.
Track(latest, p) ==
    LET mod == PyOr(DictGet(p, K_modified), DictGet(p, K_created))
    IN  IF Truthy(mod) /\ (latest = Null \/ (IsStr(mod) /\ IsStr(latest)
                                            /\ StrLess(latest[2], mod[2])))
        THEN mod ELSE latest

\* iso_now(): the clock has microsecond resolution, so each reading is
\* later than the one before.
iso_now == clock + 1

\* The loop body for one record: normalize, track the watermark, upsert.
\* stored tells whether the write went through (a storage error propagates
\* and ends the run).
ProcessRecord(stored) ==
    /\ pc = "records"
    /\ clock' = iso_now
    /\ LET results == DictGet(page, K_results)[2]
           p == results[idx]
           doc == Normalize(p, iso_now)
       IN  /\ normalized' = Append(normalized, doc)
           /\ latest_modified_seen' = Track(latest_modified_seen, p)
           /\ IF mongo_open /\ ~stored
              THEN /\ Exit(1, <<"PyMongoError", 0>>)
                   /\ UNCHANGED <<collection, docs_ingested, idx>>
              ELSE /\ collection' = IF mongo_open THEN upsert_pulse(collection, doc)
                                    ELSE collection
                   /\ docs_ingested' = docs_ingested + 1
                   /\ idx' = idx + 1
                   /\ pc' = IF idx = Len(results) THEN "fetch" ELSE "records"
                   /\ UNCHANGED <<exit_status, diag>>
    /\ UNCHANGED <<safeVars, envVars, wmFile, runs, dry_run, modified_since, run_id,
                   mongo_open, page_no, url, page, reported, requests, yielded,
                   auth_status, wm_saves, wmAtStart, collAtStart, prev>>

\* A slip: the watermark is saved whether or not anything was seen.
ShouldSave_always(latest) == TRUE

\* if latest_modified_seen:
ShouldSave(latest) == Truthy(latest)

\* The generator is exhausted: the summary line, then save_watermark.
\* outcome: "saved"; "open_failed" (open raises, the file is as it was);
\* "write_failed" (the file was truncated and is left unreadable, which
\* load_watermark reads as no watermark).  A failure is only a warning.
Finish(outcome) ==
    /\ pc = "fetch"
    /\ Exhausted
    /\ reported' = docs_ingested
    /\ IF ShouldSave(latest_modified_seen)
       THEN /\ wm_saves' = wm_saves + 1
            /\ wmFile' = CASE outcome = "saved" -> latest_modified_seen
                           [] outcome = "open_failed" -> wmFile
                           [] outcome = "write_failed" -> Null
       ELSE UNCHANGED <<wm_saves, wmFile>>
    /\ Exit(0, Null)
    /\ UNCHANGED <<safeVars, envVars, collection, clock, runs, localVars, requests,
                   normalized, yielded, auth_status, wmAtStart, collAtStart, prev>>

Statuses == {200, 403}
Seeds == {Null, TA}

Next ==
    \/ \E s \in Seeds, nw \in BOOLEAN, d \in BOOLEAN, e \in {Str(<<>>), TA} : Start(s, nw, d, e)
    \/ StartMissingKey
    \/ \E st \in Statuses : Authenticate(st)
    \/ \E st \in Statuses : FetchPage(st)
    \/ \E stored \in BOOLEAN : ProcessRecord(stored)
    \/ \E o \in {"saved", "open_failed", "write_failed"} : Finish(o)

NoPrev == [exit |-> -1, dry |-> FALSE, since |-> Null, docs |-> 0]

InitRun(F, n, W) ==
    /\ obj = Null /\ once = Null /\ twice = Null /\ stage = "unused"
    /\ feed \in F
    /\ runsLeft = n
    /\ wmFile \in W
    /\ collection = <<>>
    /\ clock = 0
    /\ runs = 0
    /\ pc = "idle"
    /\ dry_run = FALSE
    /\ modified_since = Null
    /\ run_id = Null
    /\ mongo_open = FALSE
    /\ latest_modified_seen = Null
    /\ page_no = 0
    /\ docs_ingested = 0
    /\ url = Null
    /\ page = Null
    /\ idx = 0
    /\ exit_status = -1
    /\ diag = Null
    /\ reported = -1
    /\ requests = <<>>
    /\ normalized = <<>>
    /\ yielded = <<>>
    /\ auth_status = -1
    /\ wm_saves = 0
    /\ wmAtStart = wmFile
    /\ collAtStart = <<>>
    /\ prev = NoPrev

\* One invocation over any feed, the watermark file absent or left by an
\* earlier invocation.
Init == InitRun(Feeds(IdentifiedRecords), 1, {Null, TC})

Spec == Init /\ [][Next]_vars

\* Repeated invocations over the same feed.
InitRerun == InitRun(Feeds(RerunRecords), MaxRuns, {Null})

SpecRerun == InitRerun /\ [][Next]_vars

\* ------------------------------------------- the transform on its own

InitSafe ==
    /\ obj \in Objects
    /\ once = Null
    /\ twice = Null
    /\ stage = "input"
    /\ feed = <<>> /\ runsLeft = 0 /\ wmFile = Null /\ collection = <<>>
    /\ clock = 0 /\ runs = 0 /\ pc = "idle"
    /\ dry_run = FALSE /\ modified_since = Null /\ run_id = Null
    /\ mongo_open = FALSE /\ latest_modified_seen = Null
    /\ page_no = 0 /\ docs_ingested = 0 /\ url = Null /\ page = Null /\ idx = 0
    /\ exit_status = -1 /\ diag = Null /\ reported = -1
    /\ requests = <<>> /\ normalized = <<>> /\ yielded = <<>> /\ auth_status = -1
    /\ wm_saves = 0 /\ wmAtStart = Null /\ collAtStart = <<>> /\ prev = NoPrev

ApplyOnce ==
    /\ stage = "input"
    /\ once' = make_mongo_safe(obj)
    /\ stage' = "once"
    /\ UNCHANGED <<obj, twice, etlVars>>

ApplyTwice ==
    /\ stage = "once"
    /\ twice' = make_mongo_safe(once)
    /\ stage' = "twice"
    /\ UNCHANGED <<obj, once, etlVars>>

NextSafe == ApplyOnce \/ ApplyTwice

SpecSafe == InitSafe /\ [][NextSafe]_vars

\* ----------------------------------------------------------------- claims

Completed == pc = "exited" /\ exit_status = 0

\* The records of the feed in arrival order, each with its page's position.
RECURSIVE FlatFeed(_, _)
FlatFeed(f, k) ==
    IF k > Len(f) THEN <<>>
    ELSE [i \in 1..Len(f[k]) |-> <<k, f[k][i]>>] \o FlatFeed(f, k + 1)

\* What a record contributes to the watermark: "modified", else "created".
ModOf(p) == PyOr(DictGet(p, K_modified), DictGet(p, K_created))

\* The seed and the values of the records processed so far.
SeenValues ==
    {v \in {modified_since} \cup {ModOf(FlatFeed(feed, 1)[j][2]) : j \in 1..Len(normalized)} :
        Truthy(v)}

\* The instant a timestamp text denotes: local hours minus the offset.
Instant(ts) ==
    LET h == Code(ts[2][1]) - 48
        o == Code(ts[2][3]) - 48
    IN  IF ts[2][2] = "+" THEN h - o ELSE h + o

\* C1: a second completed load over the same pages with the same resume
\* point leaves the collection with the number of documents the first left.
C1_NoDuplicates ==
    (/\ Completed /\ ~dry_run
     /\ prev.exit = 0 /\ ~prev.dry
     /\ prev.since = modified_since)
    => Len(collection) = prev.docs

\* C2: the watermark a completed run saves is the latest, as instants, of
\* the seed and every record's modified-or-created value; it is never
\* earlier than the seed.
C2_TemporalMaximum ==
    /\ (Completed /\ wm_saves = 1) =>
          /\ latest_modified_seen \in SeenValues
          /\ \A v \in SeenValues : Instant(v) <= Instant(latest_modified_seen)
    /\ (Truthy(modified_since) /\ Truthy(latest_modified_seen)) =>
          Instant(modified_since) <= Instant(latest_modified_seen)

\* What the code computes: the maximum of the same values as strings.
LexicalMaximum ==
    (pc \in {"fetch", "records"} \/ Completed) =>
       IF SeenValues = {} THEN latest_modified_seen = Null
       ELSE /\ latest_modified_seen \in SeenValues
            /\ \A v \in SeenValues : ~StrLess(latest_modified_seen[2], v[2])

\* C3: over a chain of n pages answered with 200, fetch_pulses yields the n
\* pages in chain order with n listing requests, and then stops.
C3_Pagination ==
    /\ Len(yielded) <= Len(feed)
    /\ \A k \in 1..Len(yielded) : yielded[k] = ServerPage(feed, k)
    /\ Len(requests) <= Len(feed)
    /\ Completed => Len(yielded) = Len(feed) /\ Len(requests) = Len(feed)
    /\ (pc = "fetch" /\ Len(yielded) = Len(feed)) => ~Truthy(url)

C3_Witness ==
    /\ Completed
    /\ Len(feed) = MaxPages
    /\ Len(requests) = MaxPages
    /\ requests[1][2] # Null /\ requests[MaxPages][2] = Null

\* C4: after an identity check answered with a status other than 200 the
\* process has exit status 1 and a diagnostic with that status; no listing
\* request was issued, no storage connection opened, no document written
\* and the watermark file is as it was.
C4_AuthFailure ==
    (auth_status # -1 /\ auth_status # 200) =>
        /\ pc = "exited"
        /\ exit_status = 1
        /\ diag = <<"OTX API key validation failed", auth_status>>
        /\ requests = <<>>
        /\ ~mongo_open
        /\ normalized = <<>>
        /\ collection = collAtStart
        /\ wmFile = wmAtStart /\ wm_saves = 0

C4_Witness ==
    /\ auth_status = 403
    /\ pc = "exited"
    /\ ~dry_run
    /\ wmAtStart = TC
    /\ SumLen(feed) > 0

\* Some value to save: a seed, or a record with "modified" or "created".
SomethingSeen ==
    \/ Truthy(modified_since)
    \/ \E j \in 1..Len(FlatFeed(feed, 1)) : Truthy(ModOf(FlatFeed(feed, 1)[j][2]))

C6_WatermarkAfterLoop ==
    /\ wm_saves <= 1
    /\ ~Completed => wmFile = wmAtStart /\ wm_saves = 0
    /\ wmFile # wmAtStart => wm_saves = 1
    /\ wm_saves = 1 => /\ Len(yielded) = Len(feed)
                       /\ Len(normalized) = SumLen(feed)
                       /\ docs_ingested = SumLen(feed)

C6_Witness ==
    /\ pc = "exited" /\ exit_status = 1
    /\ diag[1] \in {"Fetch error", "PyMongoError"}
    /\ collection # <<>>
    /\ Truthy(latest_modified_seen) /\ latest_modified_seen # modified_since
    /\ wmAtStart = TC /\ wmFile = TC

\* C7: applying make_mongo_safe to its own result changes nothing.
C7_Idempotent == stage = "twice" => PyEq(twice, once)

C7_Witness ==
    /\ stage = "twice"
    /\ IsDict(obj) /\ Len(obj[2]) = 2
    /\ Len(once[2]) = 1
    /\ \E i \in 1..2 : /\ \E j \in 1..Len(obj[2][i][1]) : obj[2][i][1][j] = "."
                       /\ Head(obj[2][i][1]) = "$"

RECURSIVE AllKeys(_)
AllKeys(v) ==
    IF IsDict(v)
    THEN DictKeys(v) \cup UNION {AllKeys(v[2][i][2]) : i \in 1..Len(v[2])}
    ELSE IF IsList(v) THEN UNION {AllKeys(v[2][i]) : i \in 1..Len(v[2])}
    ELSE {}

KeyIsSafe(k) ==
    /\ \A j \in 1..Len(k) : k[j] # "."
    /\ k = <<>> \/ Head(k) # "$"

\* k2 is k without some leading '$', its '.' turned into '_'.
Rewrites(k, k2) ==
    \E n \in 0..Len(k) :
        /\ \A j \in 1..n : k[j] = "$"
        /\ Len(k2) = Len(k) - n
        /\ \A j \in 1..Len(k2) : k2[j] = (IF k[n + j] = "." THEN "_" ELSE k[n + j])

\* out has the shape of in: a scalar is the same value, a sequence keeps
\* its length and order, every key of a mapping is kept (rewritten) and
\* every value of the result comes from a value under such a key.
RECURSIVE SameShape(_, _)
SameShape(in, out) ==
    IF IsDict(in)
    THEN /\ IsDict(out)
         /\ \A k \in DictKeys(in) : \E k2 \in DictKeys(out) : Rewrites(k, k2)
         /\ \A k2 \in DictKeys(out) :
               \E k \in DictKeys(in) :
                  Rewrites(k, k2) /\ SameShape(DictGet(in, k), DictGet(out, k2))
    ELSE IF IsList(in)
    THEN /\ IsList(out)
         /\ Len(out[2]) = Len(in[2])
         /\ \A i \in 1..Len(in[2]) : SameShape(in[2][i], out[2][i])
    ELSE out = in

\* C8: no key of the result, at any depth, holds '.' or begins with '$';
\* sequences keep length and order and scalars are returned unchanged.
C8_KeysSafe ==
    stage # "input" => (\A k \in AllKeys(once) : KeyIsSafe(k)) /\ SameShape(obj, once)

C8_Witness ==
    /\ stage = "once"
    /\ IsDict(obj) /\ Len(obj[2]) = 1
    /\ obj[2][1][1] = <<"$", ".">>
    /\ IsList(obj[2][1][2])
    /\ AllKeys(obj[2][1][2]) # {}
    /\ once # obj

\* C9: the documents normalized are the records of the pages, once each, in
\* arrival order; each has the 1-based position of its page as page_no and
\* the run's run_id; a completed run reports the number of all records.
C9_ArrivalOrder ==
    LET flat == FlatFeed(feed, 1)
    IN  /\ Len(normalized) <= Len(flat)
        /\ \A j \in 1..Len(normalized) :
              /\ DictGet(normalized[j], K_page_no) = Num(flat[j][1])
              /\ DictGet(normalized[j], K_run_id) = run_id
              /\ \A k \in DictKeys(flat[j][2]) :
                    DictGet(normalized[j], k) = DictGet(flat[j][2], k)
              /\ DictKeys(normalized[j]) =
                    DictKeys(flat[j][2]) \cup {K_source, K_ingested_at, K_run_id, K_page_no}
        /\ docs_ingested <= Len(normalized)
        /\ Completed => /\ Len(normalized) = Len(flat)
                        /\ docs_ingested = Len(flat)
                        /\ reported = Len(flat)

C9_Witness ==
    /\ Completed
    /\ Len(feed) = 2 /\ Len(feed[1]) = 2 /\ Len(feed[2]) = 1
    /\ [j \in 1..3 |-> DictGet(normalized[j], K_page_no)] = <<Num(1), Num(1), Num(2)>>
    /\ feed[1][1] # feed[1][2]
    /\ reported = 3

\* C10: when the record just loaded has an identifier, the stored document
\* of its natural key has exactly the record's fields and values.
C10_Replaces ==
    (mongo_open /\ normalized # <<>> /\ docs_ingested = Len(normalized)) =>
        LET doc == normalized[Len(normalized)]
        IN  DictGet(doc, K_id) # Null =>
               \A i \in 1..Len(collection) :
                  Matches(collection[i], NaturalKey(doc)) => PyEq(collection[i], doc)

====
